---------------------------- MODULE Spec2Model ----------------------------
(***************************************************************************)
(* A model of package subly (src/subly.go): the naming convention that     *)
(* maps the methods of a service onto NATS subjects (polishKindName,       *)
(* getMessages), the subscription lifecycle (sub, qsub and the goroutine   *)
(* each of them starts) and the two entry points Subscriber.Subscribe and  *)
(* Subscriber.SubscribeFunc.                                               *)
(*                                                                         *)
(* A Go string is modelled as a sequence of one-character strings, so that *)
(* HasSuffix, TrimSuffix, ToLower, LastIndex, Replace, Split and Join are  *)
(* computed character by character as the strings package computes them.  *)
(***************************************************************************)
EXTENDS Naturals, Integers, Sequences, FiniteSets, TLC

VARIABLES
    ctxDone,    \* s.ctx has been cancelled (ctx.Done() is closed)
    callers,    \* per calling goroutine: its position in Subscribe/SubscribeFunc
    transport,  \* per calling goroutine: the econn.Subscribe/QueueSubscribe calls
                \* it made, each with its outcome and the Unsubscribe calls on it
    watchers,   \* per calling goroutine: the goroutines started by sub/qsub
    logged,     \* number of lines written by log.Println("error:", err)
    probe,      \* argument of a library function applied on its own
    result      \* what that function returned

vars == <<ctxDone, callers, transport, watchers, logged, probe, result>>

----------------------------------------------------------------------------
(* Bounds of the model.                                                    *)

\* Longest method name drawn for the per-member rules, in pieces of Pieces.
MaxParts == 4
\* Largest number of methods of a service drawn for getMessages on its own.
MaxMethods == 3
\* Total number of transport subscribe calls the calls of one run may make.
MaxSubscribes == 3
\* Longest type string drawn for polishKindName on its own, in characters.
MaxKindLen == 3
\* Largest take and drop drawn for polishKindName on its own.
MaxTake == 2

----------------------------------------------------------------------------
(* Strings.                                                                *)

Upper == <<"A","B","C","D","E","F","G","H","I","J","K","L","M",
           "N","O","P","Q","R","S","T","U","V","W","X","Y","Z">>
Lower == <<"a","b","c","d","e","f","g","h","i","j","k","l","m",
           "n","o","p","q","r","s","t","u","v","w","x","y","z">>

\* The characters of the model in byte order (reflect sorts methods by name).
ByteOrder == <<"(", ")", "*", ".", "/">> \o Upper \o <<"_">> \o Lower

Rank(c) == CHOOSE i \in 1..Len(ByteOrder) : ByteOrder[i] = c

IsUpper(c) == \E i \in 1..Len(Upper) : Upper[i] = c

ToLowerChar(c) ==
    IF IsUpper(c) THEN Lower[CHOOSE i \in 1..Len(Upper) : Upper[i] = c] ELSE c

\* strings.ToLower
ToLower(s) == [i \in 1..Len(s) |-> ToLowerChar(s[i])]

\* strings.HasSuffix
HasSuffix(s, suffix) ==
    /\ Len(s) >= Len(suffix)
    /\ SubSeq(s, Len(s) - Len(suffix) + 1, Len(s)) = suffix

\* strings.TrimSuffix: s without the suffix, once, if s ends in it
TrimSuffix(s, suffix) ==
    IF HasSuffix(s, suffix) THEN SubSeq(s, 1, Len(s) - Len(suffix)) ELSE s

\* strings.LastIndex for a one-character separator: the 0-based index of its
\* last occurrence, -1 if there is none
LastIndex(s, c) ==
    LET at == {i \in 1..Len(s) : s[i] = c}
    IN  IF at = {} THEN -1
        ELSE (CHOOSE i \in at : \A j \in at : j <= i) - 1

\* strings.NewReplacer("(", "", ")", "", "*", "").Replace
RECURSIVE Undecorate(_)
Undecorate(s) ==
    IF s = <<>> THEN <<>>
    ELSE IF Head(s) \in {"(", ")", "*"} THEN Undecorate(Tail(s))
    ELSE <<Head(s)>> \o Undecorate(Tail(s))

\* strings.Split for a one-character separator: always at least one part
RECURSIVE Split(_, _)
Split(s, c) ==
    LET at == {i \in 1..Len(s) : s[i] = c}
    IN  IF at = {} THEN <<s>>
        ELSE LET i == CHOOSE k \in at : \A j \in at : k <= j
             IN  <<SubSeq(s, 1, i - 1)>> \o Split(SubSeq(s, i + 1, Len(s)), c)

\* strings.Join for a one-character separator
RECURSIVE Join(_, _)
Join(parts, c) ==
    IF parts = <<>> THEN <<>>
    ELSE IF Len(parts) = 1 THEN parts[1]
    ELSE parts[1] \o <<c>> \o Join(Tail(parts), c)

\* byte-wise s < t
RECURSIVE LexLess(_, _)
LexLess(s, t) ==
    IF t = <<>> THEN FALSE
    ELSE IF s = <<>> THEN TRUE
    ELSE IF Head(s) # Head(t) THEN Rank(Head(s)) < Rank(Head(t))
    ELSE LexLess(Tail(s), Tail(t))

Message == <<"M","e","s","s","a","g","e">>
Queue == <<"Q","u","e","u","e">>
MessageQueue == Message \o Queue

----------------------------------------------------------------------------
(* The naming convention.                                                  *)

\* parts as polishKindName first has it: the name from after its last "/",
\* if that is neither its first nor its last byte, without ( ) *, split at "."
parts(name) ==
    LET ix == LastIndex(name, "/")
        n1 == IF ix > 0 /\ (ix + 1) < Len(name)
              THEN SubSeq(name, ix + 2, Len(name)) ELSE name
        n2 == Undecorate(n1)
    IN  Split(n2, ".")

\* a faulty variant: drop may remove every part
polishKindNameDropAll(name, take, drop) ==
    LET p0 == parts(name)
        tk == IF take < 0 THEN 0 ELSE take
        p1 == IF tk < Len(p0) THEN SubSeq(p0, Len(p0) - tk + 1, Len(p0)) ELSE p0
        p2 == IF drop > 0 /\ drop <= Len(p1)
              THEN SubSeq(p1, 1, Len(p1) - drop) ELSE p1
    IN  Join(p2, ".")

polishKindName(name, take, drop) ==
    LET p0 == parts(name)
        tk == IF take < 0 THEN 0 ELSE take
        p1 == IF tk < Len(p0) THEN SubSeq(p0, Len(p0) - tk + 1, Len(p0)) ELSE p0
        p2 == IF drop > 0 /\ drop < Len(p1)
              THEN SubSeq(p1, 1, Len(p1) - drop) ELSE p1
    IN  Join(p2, ".")

\* reflect.Type.String() of a service value: the package name (not its import
\* path), a dot and the type name, with a leading * for a pointer.
TypeString(service) ==
    (IF service.pointer THEN <<"*">> ELSE <<>>)
        \o service.pkg \o <<".">> \o service.type

isMessage(name) == HasSuffix(name, Message)

\* a faulty variant: any name that ends in Queue is taken for a queue method
isMessageQueueAnyQueue(name) == HasSuffix(name, Queue)

isMessageQueue(name) == HasSuffix(name, MessageQueue)

\* a faulty variant: Message trimmed before Queue
trimmedNameMessageFirst(name) ==
    ToLower(TrimSuffix(TrimSuffix(name, Message), Queue))

\* a faulty variant: Message trimmed twice
trimmedNameTwice(name) ==
    ToLower(TrimSuffix(TrimSuffix(TrimSuffix(name, Queue), Message), Message))

\* the name a method is registered under: both suffixes trimmed, lower case
trimmedName(name) == ToLower(TrimSuffix(TrimSuffix(name, Queue), Message))

\* a faulty variant: a method with nothing before its suffix is skipped
resolveMemberSkipEmpty(service, name) ==
    IF (~isMessage(name) /\ ~isMessageQueue(name)) \/ trimmedName(name) = <<>>
    THEN [matches |-> FALSE]
    ELSE [matches |-> TRUE,
          sm |-> [message |-> name,
                  serviceName |-> ToLower(polishKindName(TypeString(service), 1, 0)),
                  messageName |-> trimmedName(name),
                  queue |-> isMessageQueue(name)]]

\* the body of getMessages' loop for one method: whether the method is
\* skipped, and the serviceMessage built for it otherwise
resolveMember(service, name) ==
    IF ~isMessage(name) /\ ~isMessageQueue(name)
    THEN [matches |-> FALSE]
    ELSE [matches |-> TRUE,
          sm |-> [message |-> name,
                  serviceName |-> ToLower(polishKindName(TypeString(service), 1, 0)),
                  messageName |-> trimmedName(name),
                  queue |-> isMessageQueue(name)]]

RECURSIVE collect(_, _)
collect(service, methods) ==
    IF methods = <<>> THEN <<>>
    ELSE LET r == resolveMember(service, Head(methods))
         IN  (IF r.matches THEN <<r.sm>> ELSE <<>>)
                 \o collect(service, Tail(methods))

getMessages(service) == collect(service, service.methods)


----------------------------------------------------------------------------
(* The values the calls of a run are made with.                            *)

\* the package documentation's service: *subly.someService
someService ==
    [pkg |-> <<"s","u","b","l","y">>, type |-> <<"s","o","m","e","S","e","r","v","i","c","e">>, pointer |-> TRUE,
     methods |-> <<<<"R","e","p","A","c","t","i","o","n","M","e","s","s","a","g","e","Q","u","e","u","e">>, <<"S","u","b","A","c","t","i","o","n","M","e","s","s","a","g","e">>>>]

\* a service held by value, with the two bare method names and a helper
bareService ==
    [pkg |-> <<"m","a","i","n">>, type |-> <<"T">>, pointer |-> FALSE,
     methods |-> <<Message, MessageQueue, <<"S","t","o","p">>>>]

\* a service with one queue method among methods that do not match
timeService ==
    [pkg |-> <<"m","a","i","n">>, type |-> <<"t","i","m","e","S","e","r","v","i","c","e">>, pointer |-> TRUE,
     methods |-> <<<<"C","l","o","s","e">>, <<"N","o","w","M","e","s","s","a","g","e","Q","u","e","u","e">>, <<"Q","u","e","u","e","s">>>>]

Services == {someService, bareService, timeService}

\* the maps given to SubscribeFunc, as sequences of (subject, callback) with
\* distinct subjects; the order of a sequence is not the order of iteration
Maps ==
    { <<>>,
      << [subject |-> <<"d">>, x |-> "h"] >>,
      << [subject |-> <<"a",".","b">>, x |-> "f"], [subject |-> <<"c">>, x |-> "g"] >> }

\* the variadic queue argument of SubscribeFunc
QueueArgs == { <<>>, << <<>> >>, << <<"q">>, <<"r">> >> }

\* the goroutines that call Subscribe or SubscribeFunc, once each, on the
\* same Subscriber
Callers == {"main", "other"}

\* no service: the service field of a goroutine that is not in Subscribe
NoService == [pkg |-> <<>>, type |-> <<>>, pointer |-> FALSE, methods |-> <<>>]

\* a goroutine that has not called yet
NoCall ==
    [fn |-> "none", pc |-> "idle", service |-> NoService, queue |-> <<>>,
     messages |-> <<>>, queueName |-> <<>>, left |-> {}]

Min(S) == CHOOSE i \in S : \A j \in S : i <= j

RECURSIVE SumOver(_, _)
SumOver(S, f) ==
    IF S = {} THEN 0
    ELSE LET c == CHOOSE d \in S : TRUE
         IN  f[c] + SumOver(S \ {c}, f)

\* whether a call over n more entries keeps the run within MaxSubscribes
WithinBound(n) ==
    SumOver(Callers, [c \in Callers |-> Len(callers[c].messages)]) + n
        <= MaxSubscribes

----------------------------------------------------------------------------
(* The transport (package nats), as far as subly uses it: a call of        *)
(* econn.Subscribe or econn.QueueSubscribe is recorded with its outcome,   *)
(* and the record counts the Unsubscribe calls on the subscription. The    *)
(* record also keeps whether ctx was already cancelled at the call (late). *)

econnSubscribe(subject, x, ok) ==
    [op |-> "Subscribe", subject |-> subject, queue |-> <<>>,
     x |-> x, ok |-> ok, unsubscribes |-> 0, late |-> ctxDone]

econnQueueSubscribe(subject, queue, x, ok) ==
    [op |-> "QueueSubscribe", subject |-> subject, queue |-> queue,
     x |-> x, ok |-> ok, unsubscribes |-> 0, late |-> ctxDone]

----------------------------------------------------------------------------
(* sub and qsub.                                                           *)

\* a faulty variant: a watcher is started whether or not the call succeeded
afterSubscribeAlwaysWatch(c, ok) ==
    /\ watchers' = [watchers EXCEPT ![c] =
            Append(@, [sub |-> Len(transport'[c]), pc |-> "wait"])]
    /\ logged' = IF ok THEN logged ELSE logged + 1

\* a faulty variant: every goroutine of a caller holds the caller's first
\* subscription
afterSubscribeSharedSub(c, ok) ==
    IF ~ok
    THEN /\ logged' = logged + 1
         /\ UNCHANGED watchers
    ELSE /\ watchers' = [watchers EXCEPT ![c] =
                Append(@, [sub |-> 1, pc |-> "wait"])]
         /\ UNCHANGED logged

\* a faulty variant: no goroutine is started once ctx is cancelled
afterSubscribeSkipWhenDone(c, ok) ==
    IF ~ok
    THEN /\ logged' = logged + 1
         /\ UNCHANGED watchers
    ELSE /\ watchers' = [watchers EXCEPT ![c] =
                IF ctxDone THEN @
                ELSE Append(@, [sub |-> Len(transport'[c]), pc |-> "wait"])]
         /\ UNCHANGED logged

\* what sub and qsub do with the outcome of the transport call, the call
\* being the last of transport'[c]: on an error log it and return, otherwise
\* start the goroutine that waits for ctx
afterSubscribe(c, ok) ==
    IF ~ok
    THEN /\ logged' = logged + 1
         /\ UNCHANGED watchers
    ELSE /\ watchers' = [watchers EXCEPT ![c] =
                Append(@, [sub |-> Len(transport'[c]), pc |-> "wait"])]
         /\ UNCHANGED logged

sub(c, subject, x) ==
    \E ok \in BOOLEAN :
        /\ transport' = [transport EXCEPT ![c] =
                            Append(@, econnSubscribe(subject, x, ok))]
        /\ afterSubscribe(c, ok)

\* a faulty variant: subject and queue reach the transport in each other's place
qsubSwapped(c, queue, subject, x) ==
    \E ok \in BOOLEAN :
        /\ transport' = [transport EXCEPT ![c] =
                            Append(@, econnQueueSubscribe(queue, subject, x, ok))]
        /\ afterSubscribe(c, ok)

\* a faulty variant: qsub returns without starting the goroutine
qsubNoWatcher(c, queue, subject, x) ==
    \E ok \in BOOLEAN :
        /\ transport' = [transport EXCEPT ![c] =
                            Append(@, econnQueueSubscribe(subject, queue, x, ok))]
        /\ logged' = IF ok THEN logged ELSE logged + 1
        /\ UNCHANGED watchers

\* a faulty variant: no call is made for a subject and queue another caller
\* has a subscription for
qsubDedup(c, queue, subject, x) ==
    IF \E d \in Callers \ {c} : \E k \in 1..Len(transport[d]) :
            /\ transport[d][k].ok
            /\ transport[d][k].subject = subject
            /\ transport[d][k].queue = queue
    THEN UNCHANGED <<transport, watchers, logged>>
    ELSE \E ok \in BOOLEAN :
            /\ transport' = [transport EXCEPT ![c] =
                                Append(@, econnQueueSubscribe(subject, queue, x, ok))]
            /\ afterSubscribe(c, ok)

qsub(c, queue, subject, x) ==
    \E ok \in BOOLEAN :
        /\ transport' = [transport EXCEPT ![c] =
                            Append(@, econnQueueSubscribe(subject, queue, x, ok))]
        /\ afterSubscribe(c, ok)

\* a faulty variant: the goroutine does not wait for ctx
watcherNoWait(c, w) ==
    /\ watchers[c][w].pc = "wait"
    /\ transport' = [transport EXCEPT
                        ![c][watchers[c][w].sub].unsubscribes = @ + 1]
    /\ \E err \in BOOLEAN : logged' = IF err THEN logged + 1 ELSE logged
    /\ watchers' = [watchers EXCEPT ![c][w].pc = "exit"]
    /\ UNCHANGED <<ctxDone, callers, probe, result>>

\* a faulty variant: the goroutine unsubscribes again when its Unsubscribe failed
watcherRetry(c, w) ==
    /\ ctxDone
    /\ watchers[c][w].pc = "wait"
    /\ transport[c][watchers[c][w].sub].unsubscribes < 2
    /\ transport' = [transport EXCEPT
                        ![c][watchers[c][w].sub].unsubscribes = @ + 1]
    /\ \E err \in BOOLEAN :
        /\ logged' = IF err THEN logged + 1 ELSE logged
        /\ watchers' = [watchers EXCEPT
                            ![c][w].pc = IF err THEN "wait" ELSE "exit"]
    /\ UNCHANGED <<ctxDone, callers, probe, result>>

\* a faulty variant: the goroutine does not end when its Unsubscribe failed
watcherHangOnError(c, w) ==
    /\ ctxDone
    /\ watchers[c][w].pc = "wait"
    /\ transport' = [transport EXCEPT
                        ![c][watchers[c][w].sub].unsubscribes = @ + 1]
    /\ \E err \in BOOLEAN :
        /\ logged' = IF err THEN logged + 1 ELSE logged
        /\ watchers' = [watchers EXCEPT
                            ![c][w].pc = IF err THEN "failed" ELSE "exit"]
    /\ UNCHANGED <<ctxDone, callers, probe, result>>

\* the goroutine started by sub or qsub: <-ctx.Done(), sub.Unsubscribe(),
\* its error logged, and the goroutine ends
watcher(c, w) ==
    /\ ctxDone
    /\ watchers[c][w].pc = "wait"
    /\ transport' = [transport EXCEPT
                        ![c][watchers[c][w].sub].unsubscribes = @ + 1]
    /\ \E err \in BOOLEAN : logged' = IF err THEN logged + 1 ELSE logged
    /\ watchers' = [watchers EXCEPT ![c][w].pc = "exit"]
    /\ UNCHANGED <<ctxDone, callers, probe, result>>

----------------------------------------------------------------------------
(* Subscriber.                                                             *)

\* a faulty variant: the loop ends at the first subscribe that fails
nextStopOnError(c, i) ==
    callers' = [callers EXCEPT
                   ![c].left = @ \ {i},
                   ![c].pc = IF callers[c].left = {i}
                                \/ ~transport'[c][Len(transport'[c])].ok
                             THEN "done" ELSE "range"]

\* a faulty variant: an entry whose subscribe failed stays in the loop
nextRetryOnError(c, i) ==
    IF transport'[c][Len(transport'[c])].ok
    THEN callers' = [callers EXCEPT
                        ![c].left = @ \ {i},
                        ![c].pc = IF callers[c].left = {i} THEN "done" ELSE "range"]
    ELSE UNCHANGED callers

\* the loop variable after the iteration over entry i
next(c, i) ==
    callers' = [callers EXCEPT
                   ![c].left = @ \ {i},
                   ![c].pc = IF callers[c].left = {i} THEN "done" ELSE "range"]

\* Subscribe, up to the loop: messages := getMessages(service)
subscribeEnter(c, service) ==
    LET messages == getMessages(service)
    IN  /\ callers[c].pc = "idle"
        /\ WithinBound(Len(messages))
        /\ callers' = [callers EXCEPT ![c] =
               [fn |-> "Subscribe",
                pc |-> IF messages = <<>> THEN "done" ELSE "range",
                service |-> service, queue |-> <<>>,
                messages |-> messages, queueName |-> <<>>,
                left |-> 1..Len(messages)]]
        /\ UNCHANGED <<ctxDone, transport, watchers, logged, probe, result>>

\* a faulty variant: Subscribe returns only when the goroutines it started
\* have ended
subscribeRangeJoin(c) ==
    /\ callers[c].fn = "Subscribe"
    /\ callers[c].pc = "range"
    /\ IF callers[c].left # {}
       THEN LET i == Min(callers[c].left)
                v == callers[c].messages[i]
                subject == v.serviceName \o <<".">> \o v.messageName
                queueName == v.serviceName \o <<"_">> \o v.messageName
            IN  /\ IF v.queue
                   THEN qsub(c, queueName, subject, v.message)
                   ELSE sub(c, subject, v.message)
                /\ callers' = [callers EXCEPT ![c].left = @ \ {i}]
       ELSE /\ \A w \in 1..Len(watchers[c]) : watchers[c][w].pc = "exit"
            /\ callers' = [callers EXCEPT ![c].pc = "done"]
            /\ UNCHANGED <<transport, watchers, logged>>
    /\ UNCHANGED <<ctxDone, probe, result>>

\* one iteration of Subscribe's loop, over the slice in order
subscribeRange(c) ==
    /\ callers[c].fn = "Subscribe"
    /\ callers[c].pc = "range"
    /\ LET i == Min(callers[c].left)
           v == callers[c].messages[i]
           subject == v.serviceName \o <<".">> \o v.messageName
           queueName == v.serviceName \o <<"_">> \o v.messageName
       IN  /\ IF v.queue
              THEN qsub(c, queueName, subject, v.message)
              ELSE sub(c, subject, v.message)
           /\ next(c, i)
    /\ UNCHANGED <<ctxDone, probe, result>>

\* SubscribeFunc, up to the loop: queueName is queue[0] if there is one
subscribeFuncEnter(c, messages, queue) ==
    /\ callers[c].pc = "idle"
    /\ WithinBound(Len(messages))
    /\ callers' = [callers EXCEPT ![c] =
           [fn |-> "SubscribeFunc",
            pc |-> IF messages = <<>> THEN "done" ELSE "range",
            service |-> NoService, queue |-> queue,
            messages |-> messages,
            queueName |-> IF Len(queue) > 0 THEN queue[1] ELSE <<>>,
            left |-> 1..Len(messages)]]
    /\ UNCHANGED <<ctxDone, transport, watchers, logged, probe, result>>

\* a faulty variant: queued whenever a queue argument was given, even an empty one
subscribeFuncRangeByLen(c) ==
    /\ callers[c].fn = "SubscribeFunc"
    /\ callers[c].pc = "range"
    /\ \E i \in callers[c].left :
        LET subject == callers[c].messages[i].subject
            m == callers[c].messages[i].x
        IN  /\ IF callers[c].queue # <<>>
               THEN qsub(c, callers[c].queueName, subject, m)
               ELSE sub(c, subject, m)
            /\ next(c, i)
    /\ UNCHANGED <<ctxDone, probe, result>>

\* one iteration of SubscribeFunc's loop, over the map in any order
subscribeFuncRange(c) ==
    /\ callers[c].fn = "SubscribeFunc"
    /\ callers[c].pc = "range"
    /\ \E i \in callers[c].left :
        LET subject == callers[c].messages[i].subject
            m == callers[c].messages[i].x
        IN  /\ IF callers[c].queueName # <<>>
               THEN qsub(c, callers[c].queueName, subject, m)
               ELSE sub(c, subject, m)
            /\ next(c, i)
    /\ UNCHANGED <<ctxDone, probe, result>>

----------------------------------------------------------------------------
(* The run: goroutines calling Subscribe and SubscribeFunc on one          *)
(* Subscriber, the goroutines they start, and the owner of ctx.            *)

NoProbe == [fn |-> "none"]
NoResult == [ready |-> FALSE]

Init ==
    /\ ctxDone = FALSE
    /\ callers = [c \in Callers |-> NoCall]
    /\ transport = [c \in Callers |-> <<>>]
    /\ watchers = [c \in Callers |-> <<>>]
    /\ logged = 0
    /\ probe = NoProbe
    /\ result = NoResult

\* cancel() of the context the Subscriber was created with
Cancel ==
    /\ ~ctxDone
    /\ ctxDone' = TRUE
    /\ UNCHANGED <<callers, transport, watchers, logged, probe, result>>

Subscribe == \E c \in Callers, service \in Services : subscribeEnter(c, service)

SubscribeLoop == \E c \in Callers : subscribeRange(c)

SubscribeFunc ==
    \E c \in Callers, messages \in Maps, queue \in QueueArgs :
        subscribeFuncEnter(c, messages, queue)

SubscribeFuncLoop == \E c \in Callers : subscribeFuncRange(c)

Watcher == \E c \in Callers : \E w \in 1..Len(watchers[c]) : watcher(c, w)

Next ==
    \/ Cancel
    \/ Subscribe
    \/ SubscribeLoop
    \/ SubscribeFunc
    \/ SubscribeFuncLoop
    \/ Watcher

Spec == Init /\ [][Next]_vars

\* a goroutine parked on <-ctx.Done() runs once the channel is closed
SpecFair == Spec /\ WF_vars(Watcher)

\* a goroutine inside Subscribe or SubscribeFunc goes on running; nothing is
\* assumed of the owner of ctx nor of the goroutines parked on ctx.Done()
SpecCallers ==
    Spec /\ \A c \in Callers :
                WF_vars(subscribeRange(c)) /\ WF_vars(subscribeFuncRange(c))

----------------------------------------------------------------------------
(* The naming rules applied on their own: the rule for one method on every *)
(* exported method name of up to MaxParts pieces, and getMessages on every *)
(* service of up to MaxMethods methods.                                    *)

Pieces == { <<"F","o","o">>, Message, Queue, <<"s">>,
            <<"m","e","s","s","a","g","e">> }

RECURSIVE Concats(_)
Concats(n) ==
    IF n = 0 THEN { <<>> }
    ELSE LET shorter == Concats(n - 1)
         IN  shorter \cup { s \o p : s \in shorter, p \in Pieces }

\* reflect lists the exported methods only: the names that start upper case
MethodNames == { n \in Concats(MaxParts) : n # <<>> /\ IsUpper(n[1]) }

\* the types of the services drawn
ProbeTypes ==
    { [pkg |-> someService.pkg, type |-> someService.type, pointer |-> TRUE],
      [pkg |-> <<"m","a","i","n">>, type |-> <<"T","i","m","e","r">>,
       pointer |-> FALSE] }

\* the method names of the services drawn
EnumNames ==
    { someService.methods[1], someService.methods[2], Message, MessageQueue,
      <<"F","o","o">>, <<"F","o","o">> \o Queue,
      <<"F","o","o">> \o Message \o <<"s">>,
      <<"F","o","o">> \o Queue \o Message }

\* reflect.Type.Method(i) lists the methods sorted by name, each name once
SortedMethods ==
    { ms \in UNION { [1..n -> EnumNames] : n \in 0..MaxMethods } :
        \A i \in 1..Len(ms) : \A j \in 1..Len(ms) :
            i < j => LexLess(ms[i], ms[j]) }

ProbeServices ==
    { [pkg |-> t.pkg, type |-> t.type, pointer |-> t.pointer, methods |-> ms] :
        t \in ProbeTypes, ms \in SortedMethods }

InitRun ==
    /\ ctxDone = FALSE
    /\ callers = [c \in Callers |-> NoCall]
    /\ transport = [c \in Callers |-> <<>>]
    /\ watchers = [c \in Callers |-> <<>>]
    /\ logged = 0

InitMember ==
    /\ InitRun
    /\ probe \in { [fn |-> "resolveMember", service |-> s, name |-> n] :
                     s \in { t \in ProbeServices : t.methods = <<>> },
                     n \in MethodNames }
    /\ result = NoResult

ResolveMember ==
    /\ probe.fn = "resolveMember"
    /\ ~result.ready
    /\ result' = [ready |-> TRUE,
                  val |-> resolveMember(probe.service, probe.name)]
    /\ UNCHANGED <<ctxDone, callers, transport, watchers, logged, probe>>

SpecMember == InitMember /\ [][ResolveMember]_vars

InitEnumerate ==
    /\ InitRun
    /\ probe \in { [fn |-> "getMessages", service |-> s] : s \in ProbeServices }
    /\ result = NoResult

GetMessages ==
    /\ probe.fn = "getMessages"
    /\ ~result.ready
    /\ result' = [ready |-> TRUE, val |-> getMessages(probe.service)]
    /\ UNCHANGED <<ctxDone, callers, transport, watchers, logged, probe>>

SpecEnumerate == InitEnumerate /\ [][GetMessages]_vars

\* the characters of the type strings drawn: the namespace separator, the
\* segment separator, the decorations and two letters
KindChars == {"/", ".", "*", "(", ")", "a", "b"}

KindNames == UNION { [1..n -> KindChars] : n \in 0..MaxKindLen }

InitKind ==
    /\ InitRun
    /\ probe \in { [fn |-> "polishKindName", name |-> n, take |-> t, drop |-> d] :
                     n \in KindNames, t \in -1..MaxTake, d \in -1..MaxTake }
    /\ result = NoResult

PolishKindName ==
    /\ probe.fn = "polishKindName"
    /\ ~result.ready
    /\ result' = [ready |-> TRUE,
                  val |-> polishKindName(probe.name, probe.take, probe.drop)]
    /\ UNCHANGED <<ctxDone, callers, transport, watchers, logged, probe>>

SpecKind == InitKind /\ [][PolishKindName]_vars

----------------------------------------------------------------------------
(* Properties of the subscription lifecycle.                               *)

\* the transport subscribe calls made so far, as (caller, index)
Calls ==
    UNION { { <<c, k>> : k \in 1..Len(transport[c]) } : c \in Callers }

Call(h) == transport[h[1]][h[2]]

\* the goroutines started for call h
WatchersOf(h) ==
    { w \in 1..Len(watchers[h[1]]) : watchers[h[1]][w].sub = h[2] }

Succeeded == { h \in Calls : Call(h).ok }

\* the callback of entry i of the batch c works on
EntryCallback(c, i) ==
    IF callers[c].fn = "Subscribe"
    THEN callers[c].messages[i].message
    ELSE callers[c].messages[i].x

\* every successful subscription has been unsubscribed exactly once, and no
\* failed one at all
UnsubscribedOnce ==
    \A h \in Calls : Call(h).unsubscribes = IF Call(h).ok THEN 1 ELSE 0

\* C1: once ctx is cancelled, with the watchers scheduled fairly, eventually
\* and from then on the Unsubscribe calls made are exactly one for each of
\* the N subscriptions that succeeded, whatever the batches and whenever
\* the cancellation comes.
C1_CancelUnsubscribesEachOnce == [](ctxDone => <>[]UnsubscribedOnce)

C1_Witness ==
    /\ ctxDone
    /\ UnsubscribedOnce
    /\ Cardinality(Succeeded) >= 2
    /\ Calls \ Succeeded # {}
    /\ \E h \in Succeeded : Call(h).op = "QueueSubscribe"
    /\ \A c \in Callers : callers[c].pc = "done"

\* C2: a subscribe that fails does not end the batch: the loop goes on to
\* every other entry, the call returns only when a subscribe call has been
\* made for each entry, and each call that succeeded has its watcher.
C2_FailureDoesNotStopBatch ==
    \A c \in Callers : callers[c].fn # "none" =>
        LET n == Len(callers[c].messages)
        IN  /\ Len(transport[c]) + Cardinality(callers[c].left) = n
            /\ (callers[c].pc = "done") = (callers[c].left = {})
            /\ callers[c].pc = "range" =>
                   ENABLED (subscribeRange(c) \/ subscribeFuncRange(c))
            /\ callers[c].pc = "done" =>
                   \A i \in 1..n : \E k \in 1..Len(transport[c]) :
                       transport[c][k].x = EntryCallback(c, i)
            /\ \A k \in 1..Len(transport[c]) :
                   transport[c][k].ok => WatchersOf(<<c, k>>) # {}

C2_Witness ==
    \E c \in Callers :
        /\ callers[c].pc = "done"
        /\ Len(transport[c]) = 2
        /\ ~transport[c][1].ok
        /\ transport[c][2].ok
        /\ WatchersOf(<<c, 2>>) # {}

\* C3: a failed subscribe starts no watcher and sub/qsub returns: the step
\* that records a failed call leaves the watchers as they were and logs the
\* error, the caller going on with its loop, and no Unsubscribe is ever
\* made for a failed call, also after cancellation.
C3_FailedSubscribeHasNoWatcher ==
    /\ [](\A h \in Calls : ~Call(h).ok =>
             Call(h).unsubscribes = 0 /\ WatchersOf(h) = {})
    /\ [][\A c \in Callers :
            (/\ Len(transport'[c]) = Len(transport[c]) + 1
             /\ ~transport'[c][Len(transport'[c])].ok)
            => /\ watchers' = watchers
               /\ logged' = logged + 1
               /\ callers'[c].pc \in {"range", "done"}]_vars

C3_Witness ==
    /\ ctxDone
    /\ \E c \in Callers :
        /\ callers[c].pc = "done"
        /\ Len(transport[c]) = 2
        /\ ~transport[c][1].ok
        /\ transport[c][1].unsubscribes = 0
        /\ transport[c][2].ok
        /\ transport[c][2].unsubscribes = 1
        /\ Len(watchers[c]) = 1

\* C4: cancellation is the only teardown: while ctx is not cancelled no
\* Unsubscribe has been made and every successful subscription still has
\* its watcher waiting, and every step that makes an Unsubscribe call is
\* taken with ctx cancelled.
C4_NoUnsubscribeBeforeCancel ==
    /\ [](~ctxDone =>
            /\ \A h \in Calls : Call(h).unsubscribes = 0
            /\ \A h \in Succeeded :
                   \E w \in WatchersOf(h) : watchers[h[1]][w].pc = "wait")
    /\ [][(\E h \in Calls : Call(h)'.unsubscribes > Call(h).unsubscribes)
            => ctxDone]_vars

C4_Witness ==
    /\ ~ctxDone
    /\ Cardinality(Succeeded) >= 2
    /\ \E c \in Callers : callers[c].pc = "done" /\ Len(transport[c]) = 2
    /\ \A h \in Succeeded : Call(h).unsubscribes = 0

\* C5: every successful subscription has at most one watcher and has been
\* unsubscribed at most once, and not at all while ctx is not cancelled.
C5_OneWatcherOneUnsubscribe ==
    \A h \in Succeeded :
        /\ Cardinality(WatchersOf(h)) <= 1
        /\ Call(h).unsubscribes <= 1
        /\ ~ctxDone => Call(h).unsubscribes = 0

C5_Witness ==
    /\ ctxDone
    /\ \E h \in Succeeded :
        /\ Call(h).unsubscribes = 1
        /\ \A w \in WatchersOf(h) : watchers[h[1]][w].pc = "exit"
    /\ \E h \in Succeeded :
        /\ Call(h).unsubscribes = 0
        /\ \E w \in WatchersOf(h) : watchers[h[1]][w].pc = "wait"

----------------------------------------------------------------------------
(* Properties of the two entry points.                                     *)

\* the calls the batch of c has made for entry i of its messages
CallsFor(c, i) ==
    { k \in 1..Len(transport[c]) :
        transport[c][k].subject = callers[c].messages[i].subject }

\* C6: SubscribeFunc with a non-empty first queue argument makes, for every
\* entry of the map, exactly one QueueSubscribe call with the entry's key as
\* subject and that one queue name, and no Subscribe call; with an empty
\* queue argument or none it makes exactly one Subscribe call for every
\* entry with the entry's key as subject, and no QueueSubscribe call.
C6_SubscribeFuncQueueOrPlain ==
    \A c \in Callers : callers[c].fn = "SubscribeFunc" =>
        LET shared == IF Len(callers[c].queue) > 0
                      THEN callers[c].queue[1] ELSE <<>>
            n == Len(callers[c].messages)
        IN  /\ \A k \in 1..Len(transport[c]) :
                 /\ \E i \in 1..n :
                        /\ transport[c][k].subject = callers[c].messages[i].subject
                        /\ transport[c][k].x = callers[c].messages[i].x
                 /\ shared # <<>> =>
                        /\ transport[c][k].op = "QueueSubscribe"
                        /\ transport[c][k].queue = shared
                 /\ shared = <<>> =>
                        /\ transport[c][k].op = "Subscribe"
                        /\ transport[c][k].queue = <<>>
            /\ \A i \in 1..n :
                 Cardinality(CallsFor(c, i)) =
                     IF callers[c].pc = "done" \/ i \notin callers[c].left
                     THEN 1 ELSE 0

C6_Witness ==
    /\ callers["main"].fn = "SubscribeFunc"
    /\ callers["main"].pc = "done"
    /\ callers["main"].queue = << <<"q">>, <<"r">> >>
    /\ Len(transport["main"]) = 2
    /\ \A k \in 1..2 : transport["main"][k].op = "QueueSubscribe"
                        /\ transport["main"][k].queue = <<"q">>
    /\ callers["other"].fn = "SubscribeFunc"
    /\ callers["other"].pc = "done"
    /\ callers["other"].queue = << <<>> >>
    /\ Len(transport["other"]) = 1
    /\ transport["other"][1].op = "Subscribe"

\* s lower-cased, without its last n characters
LowerWithout(s, n) == [i \in 1..(Len(s) - n) |-> ToLowerChar(s[i])]

\* C7: Subscribe makes its calls for the descriptors of getMessages in turn,
\* each with subject serviceName.messageName; for a MessageQueue method the
\* call is a QueueSubscribe with queue serviceName_messageName, for a
\* Message method a Subscribe with no queue; serviceName is the type's name
\* in lower case and messageName the method's name in lower case without
\* its suffix.
C7_SubscribeSubjectAndQueue ==
    \A c \in Callers : callers[c].fn = "Subscribe" =>
        \A k \in 1..Len(transport[c]) :
            LET t == transport[c][k]
                v == callers[c].messages[k]
                svc == LowerWithout(callers[c].service.type, 0)
            IN  /\ t.x = v.message
                /\ t.subject = v.serviceName \o <<".">> \o v.messageName
                /\ \E i \in 1..Len(callers[c].service.methods) :
                       callers[c].service.methods[i] = t.x
                /\ IF HasSuffix(t.x, MessageQueue)
                   THEN /\ v.queue
                        /\ t.op = "QueueSubscribe"
                        /\ t.subject = svc \o <<".">> \o LowerWithout(t.x, 12)
                        /\ t.queue = svc \o <<"_">> \o LowerWithout(t.x, 12)
                   ELSE /\ ~v.queue
                        /\ HasSuffix(t.x, Message)
                        /\ t.op = "Subscribe"
                        /\ t.subject = svc \o <<".">> \o LowerWithout(t.x, 7)
                        /\ t.queue = <<>>

C7_Witness ==
    \E c \in Callers :
        /\ callers[c].service = someService
        /\ callers[c].pc = "done"
        /\ transport[c][1].op = "QueueSubscribe"
        /\ transport[c][1].subject = <<"s","o","m","e","s","e","r","v","i","c","e",".","r","e","p","a","c","t","i","o","n">>
        /\ transport[c][1].queue = <<"s","o","m","e","s","e","r","v","i","c","e","_","r","e","p","a","c","t","i","o","n">>
        /\ transport[c][2].op = "Subscribe"
        /\ transport[c][2].subject = <<"s","o","m","e","s","e","r","v","i","c","e",".","s","u","b","a","c","t","i","o","n">>

----------------------------------------------------------------------------
(* Properties of the naming rules.                                         *)

\* C8: a method whose name ends in Message and not in MessageQueue is a
\* plain subscriber, registered under its name in lower case without that
\* one trailing Message.
C8_MessageMember ==
    (/\ probe.fn = "resolveMember"
     /\ result.ready
     /\ HasSuffix(probe.name, Message)
     /\ ~HasSuffix(probe.name, MessageQueue))
    => /\ result.val.matches
       /\ ~result.val.sm.queue
       /\ result.val.sm.messageName = LowerWithout(probe.name, 7)

C8_Witness ==
    /\ probe.fn = "resolveMember"
    /\ result.ready
    /\ probe.name = <<"F","o","o">> \o Queue \o Message
    /\ result.val.matches
    /\ ~result.val.sm.queue
    /\ result.val.sm.messageName = <<"f","o","o","q","u","e","u","e">>

\* C9: a method whose name ends in MessageQueue is a queue subscriber,
\* registered under its name in lower case without the trailing Queue and
\* the one Message before it.
C9_MessageQueueMember ==
    (/\ probe.fn = "resolveMember"
     /\ result.ready
     /\ HasSuffix(probe.name, MessageQueue))
    => /\ result.val.matches
       /\ result.val.sm.queue
       /\ result.val.sm.messageName = LowerWithout(probe.name, 12)

C9_Witness ==
    /\ probe.fn = "resolveMember"
    /\ result.ready
    /\ probe.name = <<"F","o","o">> \o Message \o Message \o Queue
    /\ result.val.matches
    /\ result.val.sm.queue
    /\ result.val.sm.messageName = <<"f","o","o","m","e","s","s","a","g","e">>

EndsInSuffix(name) == HasSuffix(name, Message) \/ HasSuffix(name, MessageQueue)

\* C10: getMessages returns exactly one descriptor for each method whose
\* name ends in Message or MessageQueue and none for any other method; for
\* the methods RepActionMessageQueue and SubActionMessage exactly two, the
\* first queued and the second not.
C10_OneDescriptorPerMatchingMethod ==
    (probe.fn = "getMessages" /\ result.ready) =>
        LET ms == probe.service.methods
            out == result.val
        IN  /\ \A i \in 1..Len(ms) :
                 Cardinality({ j \in 1..Len(out) : out[j].message = ms[i] })
                     = IF EndsInSuffix(ms[i]) THEN 1 ELSE 0
            /\ \A j \in 1..Len(out) :
                 \E i \in 1..Len(ms) : out[j].message = ms[i]
            /\ ms = someService.methods =>
                 Len(out) = 2 /\ out[1].queue /\ ~out[2].queue

C10_Witness ==
    /\ probe.fn = "getMessages"
    /\ result.ready
    /\ probe.service.methods =
           << <<"F","o","o">> \o Queue,
              someService.methods[1], someService.methods[2] >>
    /\ Len(result.val) = 2
    /\ result.val[1].queue
    /\ ~result.val[2].queue

----------------------------------------------------------------------------
(* Properties of polishKindName.                                           *)

Contains(s, c) == \E i \in 1..Len(s) : s[i] = c

\* s after its last "/", all of s if it has none
AfterLastSlash(s) ==
    IF Contains(s, "/")
    THEN LET i == CHOOSE k \in 1..Len(s) :
                      s[k] = "/" /\ \A j \in (k + 1)..Len(s) : s[j] # "/"
         IN  SubSeq(s, i + 1, Len(s))
    ELSE s

\* the name after the last "." of s, all of s if it has none
AfterLastDot(s) ==
    IF Contains(s, ".")
    THEN LET i == CHOOSE k \in 1..Len(s) :
                      s[k] = "." /\ \A j \in (k + 1)..Len(s) : s[j] # "."
         IN  SubSeq(s, i + 1, Len(s))
    ELSE s

\* C11: for a type string with a namespace separator and a decoration,
\* polishKindName(T, 1, 0) is the last dot-separated segment of what follows
\* the last "/", without the decorations: it holds none of / . * ( ).
C11_BareTypeName ==
    (/\ probe.fn = "polishKindName"
     /\ result.ready
     /\ probe.take = 1
     /\ probe.drop = 0
     /\ Contains(probe.name, "/")
     /\ \E c \in {"*", "(", ")"} : Contains(probe.name, c))
    => /\ result.val = AfterLastDot(Undecorate(AfterLastSlash(probe.name)))
       /\ \A c \in {"/", ".", "*", "(", ")"} : ~Contains(result.val, c)

----------------------------------------------------------------------------
(* Properties of the names getMessages derives.                            *)

IsLowerCase(s) == \A i \in 1..Len(s) : ~IsUpper(s[i])

\* C12: every descriptor getMessages derives has a serviceName and a
\* messageName that are lower case and not empty.
C12_NamesLowerCaseNonEmpty ==
    (probe.fn = "getMessages" /\ result.ready) =>
        \A j \in 1..Len(result.val) :
            /\ result.val[j].serviceName # <<>>
            /\ result.val[j].messageName # <<>>
            /\ IsLowerCase(result.val[j].serviceName)
            /\ IsLowerCase(result.val[j].messageName)

\* C17: a method named Message or MessageQueue is not skipped: Subscribe has
\* a descriptor for it with an empty messageName, not queued for Message and
\* queued for MessageQueue, and registers it under the subject serviceName
\* followed by "." and, for MessageQueue, the queue serviceName followed by
\* "_".
C17_BareSuffixMethod ==
    \A c \in Callers : callers[c].fn = "Subscribe" =>
        LET methods == callers[c].service.methods
            messages == callers[c].messages
            svc == LowerWithout(callers[c].service.type, 0)
        IN  \A i \in 1..Len(methods) : methods[i] \in {Message, MessageQueue} =>
                \E j \in 1..Len(messages) :
                    /\ messages[j].message = methods[i]
                    /\ messages[j].messageName = <<>>
                    /\ messages[j].queue = (methods[i] = MessageQueue)
                    /\ \A k \in 1..Len(messages) :
                           messages[k].message = methods[i] => k = j
                    /\ (callers[c].pc = "done" \/ j \notin callers[c].left) =>
                           /\ Len(transport[c]) >= j
                           /\ transport[c][j].x = methods[i]
                           /\ transport[c][j].subject = svc \o <<".">>
                           /\ transport[c][j].op =
                                  IF methods[i] = MessageQueue
                                  THEN "QueueSubscribe" ELSE "Subscribe"
                           /\ transport[c][j].queue =
                                  IF methods[i] = MessageQueue
                                  THEN svc \o <<"_">> ELSE <<>>

C17_Witness ==
    \E c \in Callers :
        /\ callers[c].service = bareService
        /\ callers[c].pc = "done"
        /\ transport[c][1].op = "Subscribe"
        /\ transport[c][1].subject = <<"t", ".">>
        /\ transport[c][1].ok
        /\ transport[c][2].op = "QueueSubscribe"
        /\ transport[c][2].subject = <<"t", ".">>
        /\ transport[c][2].queue = <<"t", "_">>
        /\ transport[c][2].ok

----------------------------------------------------------------------------
(* Termination of a registration call, and the number of its calls.        *)

\* C13: a call of Subscribe or SubscribeFunc that has entered its loop
\* returns, having made one subscribe call for each entry of its batch; it
\* does so with the caller alone scheduled, whether or not ctx is ever
\* cancelled and while the goroutines it started are still waiting.
C13_CallReturnsWithoutWatchers ==
    \A c \in Callers :
        (callers[c].pc = "range") ~>
            (/\ callers[c].pc = "done"
             /\ Len(transport[c]) = Len(callers[c].messages))

C13_Witness ==
    /\ ~ctxDone
    /\ \E c \in Callers :
        /\ callers[c].fn = "Subscribe"
        /\ callers[c].pc = "done"
        /\ Len(transport[c]) = 2
        /\ \E w \in 1..Len(watchers[c]) : watchers[c][w].pc = "wait"
    /\ \E c \in Callers :
        /\ callers[c].fn = "SubscribeFunc"
        /\ callers[c].pc = "done"
        /\ Len(transport[c]) = 1
        /\ watchers[c] # <<>>
        /\ watchers[c][1].pc = "wait"

\* the calls made with the callback of entry i of the batch c works on
CallsOfEntry(c, i) ==
    { k \in 1..Len(transport[c]) : transport[c][k].x = EntryCallback(c, i) }

\* C14: a batch of k entries makes k subscribe calls in all, one for each
\* entry whether the call succeeds or fails: every entry the loop has passed
\* has exactly one call and the others none, a step that adds a call is a
\* step of the loop that passes an entry, so that once the call has returned
\* no call is added, neither before nor after ctx is cancelled.
C14_NoRetry ==
    /\ [](\A c \in Callers :
            /\ Len(transport[c]) =
                   Len(callers[c].messages) - Cardinality(callers[c].left)
            /\ callers[c].pc = "done" =>
                   Len(transport[c]) = Len(callers[c].messages)
            /\ \A i \in 1..Len(callers[c].messages) :
                   Cardinality(CallsOfEntry(c, i)) =
                       IF i \in callers[c].left THEN 0 ELSE 1)
    /\ [][\A c \in Callers :
            Len(transport'[c]) # Len(transport[c]) =>
                /\ callers[c].pc = "range"
                /\ Len(transport'[c]) = Len(transport[c]) + 1
                /\ SubSeq(transport'[c], 1, Len(transport[c])) = transport[c]
                /\ Cardinality(callers'[c].left) =
                       Cardinality(callers[c].left) - 1]_vars

C14_Witness ==
    /\ ctxDone
    /\ \A c \in Callers : \A w \in 1..Len(watchers[c]) : watchers[c][w].pc = "exit"
    /\ callers["main"].pc = "done"
    /\ Len(callers["main"].messages) = 2
    /\ Len(transport["main"]) = 2
    /\ ~transport["main"][1].ok
    /\ transport["main"][2].ok
    /\ callers["other"].pc = "done"
    /\ Len(transport["other"]) = 1
    /\ ~transport["other"][1].ok

----------------------------------------------------------------------------
(* take and drop.                                                          *)

\* the last n elements of s
LastOf(s, n) == [i \in 1..n |-> s[Len(s) - n + i]]

\* s without its last n elements
WithoutLast(s, n) == [i \in 1..(Len(s) - n) |-> s[i]]

\* C18: for every name, take and drop, with the segments being the parts of
\* the stripped name split at ".": a negative take counts as 0 and gives the
\* empty string, a take of at least the number of segments keeps them all,
\* any other take keeps the last take segments; of what is kept the last
\* drop segments are removed if 0 < drop < their number and none otherwise;
\* the result is the remaining segments joined with ".", and every slice
\* taken on the way is within range.
C18_TakeThenDrop ==
    (probe.fn = "polishKindName" /\ result.ready) =>
        LET segments == parts(probe.name)
            take == IF probe.take < 0 THEN 0 ELSE probe.take
            kept == IF take >= Len(segments)
                    THEN segments ELSE LastOf(segments, take)
            rest == IF 0 < probe.drop /\ probe.drop < Len(kept)
                    THEN WithoutLast(kept, probe.drop) ELSE kept
        IN  /\ result.val = Join(rest, ".")
            /\ result.val \in Seq(KindChars)
            /\ probe.take <= 0 => result.val = <<>>
            /\ Len(segments) >= 1
            /\ Len(kept) = IF take < Len(segments) THEN take ELSE Len(segments)
            /\ Len(rest) = IF 0 < probe.drop /\ probe.drop < Len(kept)
                           THEN Len(kept) - probe.drop ELSE Len(kept)

C18_Witness ==
    /\ probe.fn = "polishKindName"
    /\ result.ready
    /\ probe.name = <<"a", ".", "b">>
    /\ probe.take = 2
    /\ probe.drop = 1
    /\ result.val = <<"a">>

----------------------------------------------------------------------------
(* Errors of Unsubscribe.                                                  *)

AllWatchers ==
    UNION { { <<c, w>> : w \in 1..Len(watchers[c]) } : c \in Callers }

AllExited == \A g \in AllWatchers : watchers[g[1]][g[2]].pc = "exit"

\* C15: a step that makes an Unsubscribe call is the step of one goroutine
\* that waited for ctx: it makes that one call, records at most one error,
\* ends, and leaves every other goroutine as it was; a goroutine that has
\* ended stays so and no subscription has more than one Unsubscribe call,
\* so a failed Unsubscribe is not made again; and once ctx is cancelled all
\* goroutines end, whatever the outcomes of their Unsubscribe calls.
C15_UnsubscribeErrorOnlyLogged ==
    /\ [][\A c \in Callers : \A k \in 1..Len(transport[c]) :
            transport'[c][k].unsubscribes # transport[c][k].unsubscribes =>
                /\ ctxDone
                /\ transport'[c][k].unsubscribes = transport[c][k].unsubscribes + 1
                /\ logged' \in {logged, logged + 1}
                /\ \A d \in Callers : Len(transport'[d]) = Len(transport[d])
                /\ \E w \in 1..Len(watchers[c]) :
                    /\ watchers[c][w] = [sub |-> k, pc |-> "wait"]
                    /\ watchers'[c][w] = [sub |-> k, pc |-> "exit"]
                    /\ \A g \in AllWatchers \ {<<c, w>>} :
                           watchers'[g[1]][g[2]] = watchers[g[1]][g[2]]]_vars
    /\ [][\A g \in AllWatchers :
            watchers[g[1]][g[2]].pc = "exit" =>
                watchers'[g[1]][g[2]] = watchers[g[1]][g[2]]]_vars
    /\ [](\A h \in Calls : Call(h).unsubscribes <= 1)
    /\ [](logged <= Cardinality(Calls \ Succeeded)
                      + Cardinality({ g \in AllWatchers :
                                        watchers[g[1]][g[2]].pc = "exit" }))
    /\ <>[](ctxDone => AllExited)

C15_Witness ==
    /\ ctxDone
    /\ AllExited
    /\ Cardinality(AllWatchers) = 3
    /\ Calls = Succeeded
    /\ logged = 1
    /\ UnsubscribedOnce

----------------------------------------------------------------------------
(* Calls that interleave, come after the cancellation, or come twice.      *)

\* the goroutines started for call h that have ended
ExitedWatchersOf(h) ==
    { w \in WatchersOf(h) : watchers[h[1]][w].pc = "exit" }

\* C16: however the calls of the callers and the cancellation interleave,
\* every subscription that succeeded has exactly one goroutine, started by
\* the caller that made it; every goroutine holds a subscription of its own
\* caller that succeeded and no two hold the same; and the Unsubscribe calls
\* on a subscription are those of its own goroutine, at most one.
C16_OwnWatcherPerSubscription ==
    /\ \A h \in Calls :
        /\ Cardinality(WatchersOf(h)) = IF Call(h).ok THEN 1 ELSE 0
        /\ Call(h).unsubscribes = Cardinality(ExitedWatchersOf(h))
    /\ \A g \in AllWatchers :
        /\ watchers[g[1]][g[2]].sub \in 1..Len(transport[g[1]])
        /\ transport[g[1]][watchers[g[1]][g[2]].sub].ok
        /\ \A w \in 1..Len(watchers[g[1]]) :
               watchers[g[1]][w].sub = watchers[g[1]][g[2]].sub => w = g[2]

C16_Witness ==
    /\ ctxDone
    /\ Len(transport["main"]) = 2
    /\ callers["main"].pc = "done"
    /\ ~transport["main"][1].late
    /\ transport["main"][2].late
    /\ Len(transport["other"]) = 1
    /\ transport["other"][1].late
    /\ Calls = Succeeded
    /\ transport["main"][1].unsubscribes = 1
    /\ transport["main"][2].unsubscribes = 0
    /\ transport["other"][1].unsubscribes = 1

\* the calls made when ctx was already cancelled
Late == { h \in Calls : Call(h).late }

\* C19: a loop step taken when ctx is already cancelled makes its subscribe
\* call as any other; for such a call that succeeded exactly one goroutine is
\* started, the subscription is never unsubscribed twice, and with the
\* goroutines scheduled fairly it ends up unsubscribed exactly once.
C19_LateSubscribeIsUnsubscribed ==
    /\ [][\A c \in Callers :
            (ctxDone /\ callers[c].pc = "range" /\ callers'[c] # callers[c]) =>
                /\ Len(transport'[c]) = Len(transport[c]) + 1
                /\ transport'[c][Len(transport'[c])].late
                /\ transport'[c][Len(transport'[c])].ok =>
                       /\ Len(watchers'[c]) = Len(watchers[c]) + 1
                       /\ watchers'[c][Len(watchers'[c])] =
                              [sub |-> Len(transport'[c]), pc |-> "wait"]]_vars
    /\ [](\A h \in Late :
            /\ Cardinality(WatchersOf(h)) = IF Call(h).ok THEN 1 ELSE 0
            /\ Call(h).unsubscribes <= 1)
    /\ <>[](\A h \in Late :
            Call(h).unsubscribes = IF Call(h).ok THEN 1 ELSE 0)

C19_Witness ==
    \E c \in Callers :
        /\ callers[c].pc = "done"
        /\ Len(transport[c]) = 2
        /\ \A k \in 1..2 : /\ transport[c][k].late
                           /\ transport[c][k].ok
                           /\ transport[c][k].unsubscribes = 1
        /\ \A w \in 1..Len(watchers[c]) : watchers[c][w].pc = "exit"

\* both callers have made the same call and have returned from it, and every
\* subscribe call has succeeded
SameTargetTwice ==
    /\ \A c \in Callers : callers[c].pc = "done" /\ callers[c].messages # <<>>
    /\ callers["main"].fn = callers["other"].fn
    /\ callers["main"].service = callers["other"].service
    /\ callers["main"].messages = callers["other"].messages
    /\ callers["main"].queue = callers["other"].queue
    /\ Calls = Succeeded

\* the subscriptions on the subject of entry i with its callback
HandlesOfEntry(i) ==
    { h \in Succeeded :
        /\ h[2] \in CallsOfEntry(h[1], i)
        /\ \E k \in CallsOfEntry("main", i) :
               /\ Call(h).subject = transport["main"][k].subject
               /\ Call(h).queue = transport["main"][k].queue
               /\ Call(h).op = transport["main"][k].op }

\* C20: when the same Subscribe or SubscribeFunc call is made twice and all
\* subscribe calls succeed, the second makes its own subscribe call for every
\* entry, with the same subject and queue as the first: every entry has two
\* subscriptions, each with a goroutine of its own; and once ctx is
\* cancelled, with the goroutines scheduled fairly, both end up unsubscribed
\* exactly once.
C20_RegisteringTwiceSubscribesTwice ==
    /\ [](SameTargetTwice =>
            \A i \in 1..Len(callers["main"].messages) :
                /\ \A c \in Callers : Cardinality(CallsOfEntry(c, i)) = 1
                /\ Cardinality(HandlesOfEntry(i)) = 2
                /\ \A h \in HandlesOfEntry(i) :
                       /\ Cardinality(WatchersOf(h)) = 1
                       /\ Call(h).unsubscribes <= 1
                /\ \A h1, h2 \in HandlesOfEntry(i) :
                       h1 # h2 => WatchersOf(h1) # WatchersOf(h2) \/ h1[1] # h2[1])
    /\ []((SameTargetTwice /\ ctxDone) =>
            <>[](/\ SameTargetTwice
                 /\ \A i \in 1..Len(callers["main"].messages) :
                        \A h \in HandlesOfEntry(i) : Call(h).unsubscribes = 1))

C20_Witness ==
    /\ SameTargetTwice
    /\ ctxDone
    /\ callers["main"].service = timeService
    /\ \A c \in Callers :
        /\ Len(transport[c]) = 1
        /\ transport[c][1].op = "QueueSubscribe"
        /\ transport[c][1].subject = <<"t", "i", "m", "e", "s", "e", "r", "v", "i", "c", "e", ".", "n", "o", "w">>
        /\ ~transport[c][1].late
        /\ transport[c][1].unsubscribes = 1
        /\ Len(watchers[c]) = 1

============================================================================
